---- MODULE Spec2Model ----
(***************************************************************************)
(* Cookbook 2.0 (src/main.c): a sorted doubly-linked list of receipts kept *)
(* in memory and persisted to receipts.txt as "Name: "/"Receipt: " line    *)
(* pairs.  Strings are sequences of byte values; the file is the sequence  *)
(* of its bytes, or NoFile when receipts.txt is absent.                    *)
(***************************************************************************)
EXTENDS Integers, Sequences, FiniteSets, TLC

(* ------------------------------------------------------------------ *)
(* Program constants                                                   *)
(* ------------------------------------------------------------------ *)
LEN_NAME == 30
LEN_REC == 1000
LEN_PREFIX_NAME == 6
LEN_PREFIX_RECEIPT == 9
UINT16_MOD == 65536

(* ------------------------------------------------------------------ *)
(* Bounds of the model                                                 *)
(* ------------------------------------------------------------------ *)
\* number of Receipt nodes the allocator can hand out at one time
MaxNodes == 3
\* number of records in the store file the process starts from
MaxFileRecs == 2
\* create_receipt is not called once next_id has reached this value (a direct
\* call is still made when malloc is going to fail: it draws no id)
MaxId == 2

NULL == 0
Addr == 1..MaxNodes

Min(a, b) == IF a < b THEN a ELSE b

(* ------------------------------------------------------------------ *)
(* Byte strings                                                        *)
(* ------------------------------------------------------------------ *)
NL == 10
CR == 13
\* "Name: " and "Receipt: " as written by fprintf
PrefixName == <<78, 97, 109, 101, 58, 32>>
PrefixReceipt == <<82, 101, 99, 101, 105, 112, 116, 58, 32>>
\* "Name:" and "Receipt:" as searched by strstr
MarkName == <<78, 97, 109, 101, 58>>
MarkReceipt == <<82, 101, 99, 101, 105, 112, 116, 58>>

\* a NULL char pointer passed as a string argument
NullStr == <<-1>>

\* the names and bodies the model draws from: "a", "b", "B"; "x", "y"
NameSet == {<<97>>, <<98>>, <<66>>}
FileBodySet == {<<120>>}
NewBodySet == {<<121>>}
\* a body longer than one fgets read of its line can hold
LongBody == [i \in 1..(LEN_REC - LEN_PREFIX_RECEIPT) |-> 122]

\* strstr(buff, pat) != NULL
Contains(buff, pat) ==
    \E i \in 1..(Len(buff) - Len(pat) + 1) :
        \A j \in 1..Len(pat) : buff[i + j - 1] = pat[j]

\* buff + n - 1: the prefix length taken one too short
SkipShort(buff, n) == IF Len(buff) >= n THEN SubSeq(buff, n, Len(buff)) ELSE <<>>

\* the string at buff + n (n bytes past the start of a NUL-terminated buffer)
Skip(buff, n) == IF Len(buff) >= n THEN SubSeq(buff, n + 1, Len(buff)) ELSE <<>>

\* a copy that takes the whole source, whatever the size of the field
StrncpyWhole(src, n) == src

\* strncpy(dst, src, n - 1); dst[n - 1] = '\0' on a buffer of n bytes
Strncpy(src, n) == SubSeq(src, 1, Min(Len(src), n - 1))

\* strcspn(str, "\r\n")
Strcspn(str) ==
    IF \E i \in 1..Len(str) : str[i] \in {CR, NL}
    THEN (CHOOSE i \in 1..Len(str) :
            /\ str[i] \in {CR, NL}
            /\ \A j \in 1..(i - 1) : str[j] \notin {CR, NL}) - 1
    ELSE Len(str)

TrimNewline(str) == SubSeq(str, 1, Strcspn(str))

\* fgets(buf, size, stream): at most size - 1 bytes, stopping after a newline
FgetsLen(stream, size) ==
    IF \E i \in 1..Min(Len(stream), size - 1) : stream[i] = NL
    THEN CHOOSE i \in 1..Min(Len(stream), size - 1) :
            /\ stream[i] = NL
            /\ \A j \in 1..(i - 1) : stream[j] # NL
    ELSE Min(Len(stream), size - 1)

Fgets(stream, size) ==
    [buf |-> SubSeq(stream, 1, FgetsLen(stream, size)),
     rest |-> SubSeq(stream, FgetsLen(stream, size) + 1, Len(stream))]

(* ------------------------------------------------------------------ *)
(* case_insensitive_compare                                            *)
(* ------------------------------------------------------------------ *)
\* tolower in the "C" locale
ToLower(c) == IF c >= 65 /\ c <= 90 THEN c + 32 ELSE c

\* conversion of an int to int8_t
ToInt8(x) == LET m == x % 256 IN IF m >= 128 THEN m - 256 ELSE m

\* the byte at position i of a NUL-terminated string
CharAt(s, i) == IF i <= Len(s) THEN s[i] ELSE 0

RECURSIVE CompareFrom(_, _, _)
CompareFrom(s1, s2, i) ==
    IF CharAt(s1, i) # 0 /\ CharAt(s2, i) # 0
    THEN IF ToLower(CharAt(s1, i)) # ToLower(CharAt(s2, i))
         THEN ToInt8(ToLower(CharAt(s1, i)) - ToLower(CharAt(s2, i)))
         ELSE CompareFrom(s1, s2, i + 1)
    ELSE ToInt8(ToLower(CharAt(s1, i)) - ToLower(CharAt(s2, i)))

CaseInsensitiveCompare(s1, s2) == CompareFrom(s1, s2, 1)

(* ------------------------------------------------------------------ *)
(* State                                                               *)
(* ------------------------------------------------------------------ *)
VARIABLES
    pc,        \* "start" before load_receipts, "menu" while run_menu loops
    file,      \* bytes of receipts.txt, or NoFile
    heap,      \* Receipt structs by address
    alloc,     \* addresses malloc has handed out and free has not taken back
    head,      \* head of the receipt list (NULL when empty)
    next_id,   \* the static counter of get_new_id
    last,      \* the operation completed last and its outcome
    issued,    \* every id given to a receipt so far, in order, with its origin
    had_store, \* load_receipts found receipts.txt (fptr != NULL)
    pristine,  \* neither the list nor the file has changed since load_receipts
    shown,     \* what view_receipt printed, when it was the last operation
    handles,   \* FILE handles fopen has returned and fclose has not been given
    tty,       \* the terminal: its mode, run_menu's orig_termios, and the mode
               \* in which the last menu entry asked for its input
    selected_option  \* run_menu's highlighted menu line

vars == <<pc, file, heap, alloc, head, next_id, last, issued, had_store, pristine, shown,
          handles, tty, selected_option>>

\* view_receipt has printed no receipt
NotShown == <<>>

\* receipts.txt does not exist
NoFile == <<-1>>

\* a struct Receipt after memset(.., 0, ..)
ZeroNode == [id |-> 0, name |-> <<>>, receipt |-> <<>>, next |-> NULL, prev |-> NULL]

\* malloc(sizeof(Receipt)): an unused address, NULL when none is left
Malloc(al) == IF Addr \ al = {} THEN NULL
              ELSE CHOOSE a \in Addr \ al : \A b \in Addr \ al : a <= b

\* the addresses reached from hd through next, in order
RECURSIVE ListFrom(_, _, _)
ListFrom(h, cur, fuel) ==
    IF cur = NULL \/ fuel = 0 THEN <<>>
    ELSE <<cur>> \o ListFrom(h, h[cur].next, fuel - 1)

List(h, hd) == ListFrom(h, hd, MaxNodes + 1)

\* the listing of display_receipts: (id, name) in list order
Listing(h, hd) == [i \in 1..Len(List(h, hd)) |->
                      <<h[List(h, hd)[i]].id, h[List(h, hd)[i]].name>>]

(* ------------------------------------------------------------------ *)
(* insert_alphabetically, detach_receipt                               *)
(* ------------------------------------------------------------------ *)
\* Case 2 with the comparison turned round
GoesAtHeadInverted(h, hd, new) == CaseInsensitiveCompare(h[new].name, h[hd].name) > 0

\* Case 2: the new node goes before the head
GoesAtHead(h, hd, new) == CaseInsensitiveCompare(h[new].name, h[hd].name) < 0

\* Case 3 without its loop: the new node goes right after the head
WalkOnNever(h, cur, new) == FALSE

\* Case 3 loop condition: keep walking past current->next
WalkOn(h, cur, new) ==
    /\ h[cur].next # NULL
    /\ CaseInsensitiveCompare(h[h[cur].next].name, h[new].name) < 0

RECURSIVE WalkFrom(_, _, _, _)
WalkFrom(h, cur, new, fuel) ==
    IF fuel > 0 /\ WalkOn(h, cur, new)
    THEN WalkFrom(h, h[cur].next, new, fuel - 1)
    ELSE cur

\* Case 3 without "current->next->prev = new_receipt"
InsertAfterNoBackLink(h, cur, new) ==
    LET nx == h[cur].next
        h1 == [h EXCEPT ![new].prev = cur, ![new].next = nx]
    IN [h1 EXCEPT ![cur].next = new]

\* Case 3: new_receipt is linked between current and current->next
InsertAfter(h, cur, new) ==
    LET nx == h[cur].next
        h1 == [h EXCEPT ![new].prev = cur, ![new].next = nx]
        h2 == IF nx # NULL THEN [h1 EXCEPT ![nx].prev = new] ELSE h1
    IN [h2 EXCEPT ![cur].next = new]

InsertAlphabetically(h, hd, new) ==
    IF hd = NULL
    THEN [heap |-> [h EXCEPT ![new].next = NULL, ![new].prev = NULL], head |-> new]
    ELSE IF GoesAtHead(h, hd, new)
    THEN [heap |-> [h EXCEPT ![new].prev = NULL, ![new].next = hd, ![hd].prev = new],
          head |-> new]
    ELSE [heap |-> InsertAfter(h, WalkFrom(h, hd, new, MaxNodes + 1), new),
          head |-> hd]

\* detach_receipt without "if(head == node) head = node->next"
DetachHeadKept(h, hd, node) ==
    IF hd = NULL \/ node = NULL THEN [heap |-> h, head |-> hd]
    ELSE LET nx == h[node].next
             pv == h[node].prev
             h1 == IF nx # NULL THEN [h EXCEPT ![nx].prev = pv] ELSE h
             h2 == IF pv # NULL THEN [h1 EXCEPT ![pv].next = nx] ELSE h1
         IN [heap |-> [h2 EXCEPT ![node].next = NULL, ![node].prev = NULL],
             head |-> hd]

DetachReceipt(h, hd, node) ==
    IF hd = NULL \/ node = NULL THEN [heap |-> h, head |-> hd]
    ELSE LET nx == h[node].next
             pv == h[node].prev
             h1 == IF nx # NULL THEN [h EXCEPT ![nx].prev = pv] ELSE h
             h2 == IF pv # NULL THEN [h1 EXCEPT ![pv].next = nx] ELSE h1
         IN [heap |-> [h2 EXCEPT ![node].next = NULL, ![node].prev = NULL],
             head |-> IF hd = node THEN nx ELSE hd]

(* ------------------------------------------------------------------ *)
(* get_new_id                                                          *)
(* ------------------------------------------------------------------ *)
\* the scan without its >= test: the id of the last node, plus one
RECURSIVE ScanIdsLast(_, _, _, _)
ScanIdsLast(h, cur, nid, fuel) ==
    IF cur = NULL \/ fuel = 0 THEN nid
    ELSE ScanIdsLast(h, h[cur].next, (h[cur].id + 1) % UINT16_MOD, fuel - 1)

\* the scan of get_new_id: next_id ends one above the largest id of the list
RECURSIVE ScanIds(_, _, _, _)
ScanIds(h, cur, nid, fuel) ==
    IF cur = NULL \/ fuel = 0 THEN nid
    ELSE ScanIds(h, h[cur].next,
                 IF h[cur].id >= nid THEN (h[cur].id + 1) % UINT16_MOD ELSE nid,
                 fuel - 1)

\* get_new_id without the initialisation from the list
NeedsScanNever(hd, nid) == FALSE

\* the condition under which the counter is initialised from the list
NeedsScan(hd, nid) == nid = 0 /\ hd # NULL

\* get_new_id returning ++next_id instead of next_id++
GetNewIdPreIncrement(h, hd, nid) ==
    LET n == IF NeedsScan(hd, nid) THEN ScanIds(h, hd, nid, MaxNodes + 1) ELSE nid
    IN [id |-> (n + 1) % UINT16_MOD, next_id |-> (n + 1) % UINT16_MOD]

\* get_new_id with a counter that is not static: every call starts from 0
GetNewIdFromList(h, hd, nid) ==
    LET n == IF hd # NULL THEN ScanIds(h, hd, 0, MaxNodes + 1) ELSE 0
    IN [id |-> n, next_id |-> (n + 1) % UINT16_MOD]

\* get_new_id returning next_id without the ++
GetNewIdStuck(h, hd, nid) ==
    LET n == IF NeedsScan(hd, nid) THEN ScanIds(h, hd, nid, MaxNodes + 1) ELSE nid
    IN [id |-> n, next_id |-> n]

\* get_new_id: the static counter, set from the list when it is 0, then next_id++
GetNewId(h, hd, nid) ==
    LET n == IF NeedsScan(hd, nid) THEN ScanIds(h, hd, nid, MaxNodes + 1) ELSE nid
    IN [id |-> n, next_id |-> (n + 1) % UINT16_MOD]

(* ------------------------------------------------------------------ *)
(* File I/O                                                            *)
(* ------------------------------------------------------------------ *)
\* fprintf "Name: %s\n" then "Receipt: %s\n"
RecordBytes(name, receipt) ==
    PrefixName \o name \o <<NL>> \o PrefixReceipt \o receipt \o <<NL>>

\* save_receipt_to_file: fopen "a" creates the file when it is absent
SaveReceiptToFile(f, h, r, ok) ==
    IF ~ok THEN f
    ELSE (IF f = NoFile THEN <<>> ELSE f) \o RecordBytes(h[r].name, h[r].receipt)

RECURSIVE WriteAll(_, _, _)
WriteAll(h, cur, fuel) ==
    IF cur = NULL \/ fuel = 0 THEN <<>>
    ELSE RecordBytes(h[cur].name, h[cur].receipt) \o WriteAll(h, h[cur].next, fuel - 1)

\* rewrite_receipts_to_file opening the file with "a" instead of "w"
RewriteAppending(f, h, hd, ok) ==
    IF ~ok THEN f ELSE (IF f = NoFile THEN <<>> ELSE f) \o WriteAll(h, hd, MaxNodes + 1)

\* rewrite_receipts_to_file leaving the file as it is
RewriteKeeping(f, h, hd, ok) == f

\* rewrite_receipts_to_file: fopen "w" truncates, then every node from head
RewriteReceiptsToFile(f, h, hd, ok) ==
    IF ~ok THEN f ELSE WriteAll(h, hd, MaxNodes + 1)

(* ------------------------------------------------------------------ *)
(* load_receipts                                                       *)
(* ------------------------------------------------------------------ *)
\* one pass of the while(fgets(..)) body on the trimmed line buff;
\* st = [heap, alloc, head, tmp, num, stop]
LoadLine(st, buff) ==
    IF Contains(buff, MarkName)
    THEN LET a == Malloc(st.alloc)
         IN IF a = NULL
            THEN [st EXCEPT !.tmp = NULL, !.stop = TRUE]
            ELSE [st EXCEPT !.alloc = @ \cup {a},
                            !.heap = [@ EXCEPT ![a] =
                                [ZeroNode EXCEPT !.name =
                                    Strncpy(Skip(buff, LEN_PREFIX_NAME), LEN_NAME)]],
                            !.tmp = a]
    ELSE IF st.tmp # NULL /\ Contains(buff, MarkReceipt)
    THEN LET h1 == [st.heap EXCEPT ![st.tmp].receipt =
                        Strncpy(Skip(buff, LEN_PREFIX_RECEIPT), LEN_REC),
                                   ![st.tmp].id = st.num]
             ins == InsertAlphabetically(h1, st.head, st.tmp)
         IN [st EXCEPT !.heap = ins.heap, !.head = ins.head, !.tmp = NULL,
                       !.num = (@ + 1) % UINT16_MOD,
                       !.ids = Append(@, st.num)]
    ELSE st

RECURSIVE LoadLoop(_, _)
LoadLoop(stream, st) ==
    IF stream = <<>> \/ st.stop THEN st
    ELSE LET r == Fgets(stream, LEN_REC)
         IN LoadLoop(r.rest, LoadLine(st, TrimNewline(r.buf)))

\* the state load_receipts returns with, given the bytes of an existing file
LoadResult(f, h, al) ==
    LET st == LoadLoop(f, [heap |-> h, alloc |-> al, head |-> NULL, tmp |-> NULL,
                           num |-> 0, stop |-> FALSE, ids |-> <<>>])
    IN IF st.tmp # NULL
       THEN [st EXCEPT !.alloc = @ \ {st.tmp}, !.heap = [@ EXCEPT ![st.tmp] = ZeroNode]]
       ELSE st

(* ------------------------------------------------------------------ *)
(* The store files a run can start from                                *)
(* ------------------------------------------------------------------ *)
FileRecords == [name : NameSet, receipt : FileBodySet]

\* a store file holding the records rs in that order, in the README's format
RECURSIVE FileOf(_)
FileOf(rs) ==
    IF rs = <<>> THEN <<>>
    ELSE <<78, 97, 109, 101, 58, 32>> \o Head(rs).name \o <<10>>
         \o <<82, 101, 99, 101, 105, 112, 116, 58, 32>> \o Head(rs).receipt \o <<10>>
         \o FileOf(Tail(rs))

InitFiles ==
    {NoFile}
    \cup {FileOf(rs) : rs \in UNION {[1..n -> FileRecords] : n \in 0..MaxFileRecs}}
    \cup {FileOf(<<[name |-> <<98>>, receipt |-> LongBody]>>)}

(* ------------------------------------------------------------------ *)
(* Operations                                                          *)
(* ------------------------------------------------------------------ *)
Outcome(op, found, wrote) == [op |-> op, found |-> found, wrote |-> wrote]

\* the terminal when the program starts: line mode with echo, nothing saved
TtyAtStart == [mode |-> "cooked", saved |-> "unset", asked |-> "none"]

\* enable_raw_mode: tcgetattr stores the present settings in orig_termios,
\* then ICANON and ECHO are switched off
EnableRawMode(t) == [t EXCEPT !.saved = t.mode, !.mode = "raw"]

\* disable_raw_mode leaving the terminal as it is
DisableRawModeNot(t) == t

\* disable_raw_mode: tcsetattr with the settings in orig_termios
DisableRawMode(t) == [t EXCEPT !.mode = t.saved]

\* run_menu around a menu entry: disable_raw_mode, the entry asks for its
\* input and runs, "Press any key", enable_raw_mode
MenuEntryTty(t) ==
    [EnableRawMode(DisableRawMode(t)) EXCEPT !.asked = DisableRawMode(t).mode]

\* load_receipts leaving through a return at its break
LoadHandlesReturnAtBreak(opened, broke) ==
    IF ~opened THEN 0 ELSE IF broke THEN 1 ELSE 1 - 1

\* load_receipts: handles opened less handles closed.  opened: fopen "r" gave
\* a handle; broke: the loop was left by the break after a failed malloc.
\* Both ways out of the loop reach the fclose before the return
LoadHandles(opened, broke) ==
    IF ~opened THEN 0 ELSE 1 - 1

\* save_receipt_to_file: fopen "a", and fclose when it gave a handle
SaveHandles(ok) == IF ok THEN 1 - 1 ELSE 0

\* rewrite_receipts_to_file: fopen "w", and fclose when it gave a handle
RewriteHandles(ok) == IF ok THEN 1 - 1 ELSE 0

Init ==
    /\ pc = "start"
    /\ file \in InitFiles
    /\ heap = [a \in Addr |-> ZeroNode]
    /\ alloc = {}
    /\ head = NULL
    /\ next_id = 0
    /\ last = Outcome("none", FALSE, "none")
    /\ issued = <<>>
    /\ had_store = FALSE
    /\ pristine = TRUE
    /\ shown = NotShown
    /\ handles = 0
    /\ tty = TtyAtStart
    /\ selected_option = 0

\* main: head = load_receipts()
LoadReceipts ==
    /\ pc = "start"
    /\ pc' = "menu"
    /\ IF file = NoFile
       THEN UNCHANGED <<heap, alloc, head, issued>>
       ELSE LET st == LoadResult(file, heap, alloc)
            IN /\ heap' = st.heap
               /\ alloc' = st.alloc
               /\ head' = st.head
               /\ issued' = [i \in 1..Len(st.ids) |-> [by |-> "load", id |-> st.ids[i]]]
    /\ last' = Outcome("load", file # NoFile, "none")
    /\ had_store' = (file # NoFile)
    /\ handles' = handles + LoadHandles(file # NoFile,
                                        file # NoFile /\ LoadResult(file, heap, alloc).stop)
    /\ tty' = EnableRawMode(tty)
    /\ selected_option' = 0
    /\ UNCHANGED <<file, next_id, pristine, shown>>

\* create_receipt drawing the id before it looks at malloc's result
CreateReceiptIdFirst(name, receipt, ok) ==
    LET a == Malloc(alloc)
        g == GetNewId(heap, head, next_id)
    IN IF a = NULL
       THEN /\ last' = Outcome("add_nomem", FALSE, "none")
            /\ next_id' = g.next_id
            /\ UNCHANGED <<file, heap, alloc, head, issued, handles>>
       ELSE LET h1 == [heap EXCEPT ![a] = [ZeroNode EXCEPT
                            !.name = Strncpy(name, LEN_NAME),
                            !.receipt = Strncpy(receipt, LEN_REC),
                            !.id = g.id]]
                ins == InsertAlphabetically(h1, head, a)
            IN /\ heap' = ins.heap
               /\ head' = ins.head
               /\ alloc' = alloc \cup {a}
               /\ next_id' = g.next_id
               /\ file' = SaveReceiptToFile(file, ins.heap, a, ok)
               /\ handles' = handles + SaveHandles(ok)
               /\ issued' = Append(issued, [by |-> "add", id |-> g.id])
               /\ last' = Outcome("add", TRUE, IF ok THEN "append" ELSE "failed")

\* create_receipt(head, name, receipt); ok: the append to the file succeeds
CreateReceipt(name, receipt, ok) ==
    LET a == Malloc(alloc)
    IN IF a = NULL
       THEN /\ last' = Outcome("add_nomem", FALSE, "none")
            /\ UNCHANGED <<file, heap, alloc, head, next_id, issued, handles>>
       ELSE LET g == GetNewId(heap, head, next_id)
                h1 == [heap EXCEPT ![a] = [ZeroNode EXCEPT
                            !.name = Strncpy(name, LEN_NAME),
                            !.receipt = Strncpy(receipt, LEN_REC),
                            !.id = g.id]]
                ins == InsertAlphabetically(h1, head, a)
            IN /\ heap' = ins.heap
               /\ head' = ins.head
               /\ alloc' = alloc \cup {a}
               /\ next_id' = g.next_id
               /\ file' = SaveReceiptToFile(file, ins.heap, a, ok)
               /\ handles' = handles + SaveHandles(ok)
               /\ issued' = Append(issued, [by |-> "add", id |-> g.id])
               /\ last' = Outcome("add", TRUE, IF ok THEN "append" ELSE "failed")

\* run_menu calling create_receipt without looking at the name
NameNotTested(name) == TRUE

\* the menu's name[0] != '\0' test
NameGiven(name) == name # <<>>

\* run_menu, MENU_ADD: the user types nameLine and recLine, each ended by Enter
MenuAdd(nameLine, recLine, ok) ==
    /\ pc = "menu"
    /\ next_id < MaxId
    /\ LET r1 == Fgets(nameLine \o <<NL>> \o recLine \o <<NL>>, LEN_NAME)
           r2 == Fgets(r1.rest, LEN_REC)
           name == TrimNewline(r1.buf)
           receipt == TrimNewline(r2.buf)
       IN IF NameGiven(name)
          THEN CreateReceipt(name, receipt, ok)
          ELSE /\ last' = Outcome("add_skip", FALSE, "none")
               /\ UNCHANGED <<file, heap, alloc, head, next_id, issued, handles>>
    /\ pristine' = (pristine /\ file' = file /\ heap' = heap /\ head' = head)
    /\ shown' = NotShown
    /\ tty' = MenuEntryTty(tty)
    /\ UNCHANGED <<pc, had_store, selected_option>>

\* the first node from cur on whose id is receipt_id, NULL when there is none
RECURSIVE FindFrom(_, _, _, _)
FindFrom(h, cur, receipt_id, fuel) ==
    IF cur = NULL \/ fuel = 0 THEN NULL
    ELSE IF h[cur].id = receipt_id THEN cur
    ELSE FindFrom(h, h[cur].next, receipt_id, fuel - 1)

\* a search that looks at the head only
FindHeadOnly(h, hd, receipt_id) ==
    IF hd # NULL /\ h[hd].id = receipt_id THEN hd ELSE NULL

\* a search that settles for the head when no node bears the id
FindOrHead(h, hd, receipt_id) ==
    IF FindFrom(h, hd, receipt_id, MaxNodes + 1) = NULL THEN hd
    ELSE FindFrom(h, hd, receipt_id, MaxNodes + 1)

Find(h, hd, receipt_id) == FindFrom(h, hd, receipt_id, MaxNodes + 1)

\* update_receipt without the strcmp against the current name
NameChangesWhenGiven(h, cur, name) == name # NullStr /\ name # <<>>

\* update_receipt: the name is replaced when given and different
NameChanges(h, cur, name) == name # NullStr /\ name # <<>> /\ name # h[cur].name

\* update_receipt: the receipt text is replaced when given
ReceiptChanges(receipt) == receipt # NullStr /\ receipt # <<>>

\* update_receipt without its early return
NothingToUpdateNever(name, receipt) == FALSE

\* update_receipt: name == NULL && receipt == NULL
NothingToUpdate(name, receipt) == name = NullStr /\ receipt = NullStr

\* update_receipt(head, receipt_id, name, receipt); ok: the rewrite succeeds
UpdateReceipt(receipt_id, name, receipt, ok) ==
    /\ pc = "menu"
    /\ IF NothingToUpdate(name, receipt)
       THEN /\ last' = Outcome("update_null", FALSE, "none")
            /\ UNCHANGED <<file, heap, head, handles>>
       ELSE LET cur == Find(heap, head, receipt_id)
                changed == cur # NULL /\ NameChanges(heap, cur, name)
                h1 == IF changed
                      THEN [heap EXCEPT ![cur].name = Strncpy(name, LEN_NAME)]
                      ELSE heap
                h2 == IF cur # NULL /\ ReceiptChanges(receipt)
                      THEN [h1 EXCEPT ![cur].receipt = Strncpy(receipt, LEN_REC)]
                      ELSE h1
                det == DetachReceipt(h2, head, cur)
                ins == IF changed
                       THEN InsertAlphabetically(det.heap, det.head, cur)
                       ELSE [heap |-> h2, head |-> head]
            IN /\ heap' = ins.heap
               /\ head' = ins.head
               /\ file' = RewriteReceiptsToFile(file, ins.heap, ins.head, ok)
               /\ handles' = handles + RewriteHandles(ok)
               /\ last' = Outcome("update", cur # NULL,
                                  IF ok THEN "rewrite" ELSE "failed")
    /\ pristine' = (pristine /\ file' = file /\ heap' = heap /\ head' = head)
    /\ shown' = NotShown
    /\ tty' = MenuEntryTty(tty)
    /\ UNCHANGED <<pc, alloc, next_id, issued, had_store, selected_option>>

\* delete_receipt(head, receipt_id); ok: the rewrite succeeds
DeleteReceipt(receipt_id, ok) ==
    /\ pc = "menu"
    /\ LET cur == Find(heap, head, receipt_id)
       IN IF head = NULL \/ cur = NULL
          THEN /\ last' = Outcome("delete", FALSE, "none")
               /\ UNCHANGED <<file, heap, alloc, head, handles>>
          ELSE LET det == DetachReceipt(heap, head, cur)
               IN /\ head' = det.head
                  /\ file' = RewriteReceiptsToFile(file, det.heap, det.head, ok)
                  /\ handles' = handles + RewriteHandles(ok)
                  /\ heap' = [det.heap EXCEPT ![cur] = ZeroNode]
                  /\ alloc' = alloc \ {cur}
                  /\ last' = Outcome("delete", TRUE,
                                     IF ok THEN "rewrite" ELSE "failed")
    /\ pristine' = (pristine /\ file' = file /\ heap' = heap /\ head' = head)
    /\ shown' = NotShown
    /\ tty' = MenuEntryTty(tty)
    /\ UNCHANGED <<pc, next_id, issued, had_store, selected_option>>

\* view_receipt(head, receipt_id): prints "[id] name" and the receipt text of
\* the first node bearing the id; prints no receipt when there is none
ViewReceipt(receipt_id) ==
    /\ pc = "menu"
    /\ LET cur == IF head = NULL THEN NULL ELSE Find(heap, head, receipt_id)
       IN /\ shown' = IF cur = NULL THEN NotShown
                      ELSE <<[id |-> heap[cur].id, name |-> heap[cur].name,
                              receipt |-> heap[cur].receipt]>>
          /\ last' = Outcome("view", cur # NULL, "none")
    /\ tty' = MenuEntryTty(tty)
    /\ UNCHANGED <<pc, file, heap, alloc, head, next_id, issued, had_store, pristine,
                   handles, selected_option>>

\* what the user can type and which ids can be asked for
TypedNames == NameSet \cup {<<>>, <<CR>>}
TypedBodies == NewBodySet
UpdateNames == NameSet \cup {<<>>}
UpdateBodies == NewBodySet \cup {<<>>}
AskedIds == 0..MaxId

Next ==
    \/ LoadReceipts
    \/ \E n \in TypedNames, r \in TypedBodies : MenuAdd(n, r, TRUE)
    \/ \E i \in AskedIds, n \in UpdateNames, r \in UpdateBodies : UpdateReceipt(i, n, r, TRUE)
    \/ \E i \in AskedIds : DeleteReceipt(i, TRUE)

Spec == Init /\ [][Next]_vars

\* three stores to start from: none, one in ascending order, one whose two
\* names compare equal
CallFiles ==
    {NoFile,
     FileOf(<<[name |-> <<97>>, receipt |-> <<120>>], [name |-> <<98>>, receipt |-> <<120>>]>>),
     FileOf(<<[name |-> <<66>>, receipt |-> <<120>>], [name |-> <<98>>, receipt |-> <<120>>]>>)}

InitCalls == Init /\ file \in CallFiles

\* the menu with its "View receipt" entry
NextView ==
    \/ Next
    \/ \E i \in AskedIds : ViewReceipt(i)

SpecView == InitCalls /\ [][NextView]_vars

(* ------------------------------------------------------------------ *)
(* create_receipt and update_receipt called with arguments the menu    *)
(* never passes: strings longer than the fields, and NULL              *)
(* ------------------------------------------------------------------ *)
\* a name of exactly LEN_NAME - 1 characters
NameMax == [i \in 1..(LEN_NAME - 1) |-> 99]
\* a name of LEN_NAME characters; the last one differs from the others
NameOver == [i \in 1..LEN_NAME |-> IF i < LEN_NAME THEN 100 ELSE 101]
\* a receipt text of exactly LEN_REC - 1 characters
BodyMax == [i \in 1..(LEN_REC - 1) |-> 117]
\* a receipt text of LEN_REC characters; the last one differs from the others
BodyOver == [i \in 1..LEN_REC |-> IF i < LEN_REC THEN 118 ELSE 119]

\* (name, receipt) pairs create_receipt is called with
CreateArgs == {<<NameMax, BodyMax>>, <<NameOver, BodyOver>>}
\* (name, receipt) pairs update_receipt is called with: nothing, a text only,
\* two empty strings, a short name alone and with a text, a long name alone
UpdateArgs ==
    {<<NullStr, NullStr>>, <<NullStr, BodyOver>>, <<<<>>, <<>>>>,
     <<<<66>>, <<>>>>, <<<<66>>, BodyOver>>, <<NameOver, NullStr>>}

\* head = create_receipt(head, name, receipt)
CreateReceiptCall(name, receipt, ok) ==
    /\ pc = "menu"
    /\ (next_id < MaxId \/ Malloc(alloc) = NULL)
    /\ CreateReceipt(name, receipt, ok)
    /\ pristine' = (pristine /\ file' = file /\ heap' = heap /\ head' = head)
    /\ shown' = NotShown
    /\ tty' = MenuEntryTty(tty)
    /\ UNCHANGED <<pc, had_store, selected_option>>

NextCalls ==
    \/ LoadReceipts
    \/ \E a \in CreateArgs : CreateReceiptCall(a[1], a[2], TRUE)
    \/ \E i \in AskedIds, a \in UpdateArgs : UpdateReceipt(i, a[1], a[2], TRUE)
    \/ \E i \in AskedIds : DeleteReceipt(i, TRUE)

SpecCalls == InitCalls /\ [][NextCalls]_vars

(* ------------------------------------------------------------------ *)
(* The catalog and the store as the properties below read them         *)
(* ------------------------------------------------------------------ *)
Nodes == List(heap, head)
Entry(i) == heap[Nodes[i]]
Size == Len(Nodes)

\* position in the list of the entry with the given id (0 when there is none)
PosOfId(id) == IF \E i \in 1..Size : Entry(i).id = id
               THEN CHOOSE i \in 1..Size : Entry(i).id = id
               ELSE 0

\* ids given out by create_receipt, in order
AddedIds == SelectSeq(issued, LAMBDA e : e.by = "add")

(* ------------------------------------------------------------------ *)
(* C1  Between operations the list is sorted ascending by name under   *)
(*     case_insensitive_compare: each entry compares <= its successor. *)
(* ------------------------------------------------------------------ *)
C1_SortedByName ==
    pc = "menu" =>
        \A i \in 1..(Size - 1) :
            CaseInsensitiveCompare(Entry(i).name, Entry(i + 1).name) <= 0

\* a renamed entry has been re-sorted into a list of three
C1_Witness ==
    /\ last.op = "update" /\ last.found
    /\ Size = 3
    /\ CaseInsensitiveCompare(Entry(1).name, Entry(3).name) < 0
    /\ Entry(3).id = 0 /\ Len(issued) = 3

(* ------------------------------------------------------------------ *)
(* C2  As claimed: an inserted entry is placed after all entries whose *)
(*     names compare equal to it, so equal names stay in insertion     *)
(*     order.  After load insertion order is id order; after an add    *)
(*     the inserted entry is the one bearing the id issued last.       *)
(* ------------------------------------------------------------------ *)
C2_InsertedAfterEquals ==
    /\ last.op = "load" =>
          \A i \in 1..Size : \A j \in (i + 1)..Size :
              CaseInsensitiveCompare(Entry(i).name, Entry(j).name) = 0
                  => Entry(i).id < Entry(j).id
    /\ last.op = "add" =>
          LET k == PosOfId(issued[Len(issued)].id)
          IN \A j \in (k + 1)..Size :
                CaseInsensitiveCompare(Entry(j).name, Entry(k).name) # 0

(* ------------------------------------------------------------------ *)
(* C3  No two entries of the list have the same id.                    *)
(* ------------------------------------------------------------------ *)
C3_UniqueIds ==
    \A i \in 1..Size : \A j \in 1..Size : Entry(i).id = Entry(j).id => i = j

\* loaded entries and an added one live together
C3_Witness ==
    /\ last.op = "add"
    /\ Size = 3
    /\ issued[1].by = "load" /\ issued[2].by = "load"

(* ------------------------------------------------------------------ *)
(* C4  As claimed: an id given to an entry by load or by add is never  *)
(*     given again by a later add, whatever was deleted meanwhile.     *)
(* ------------------------------------------------------------------ *)
C4_NoIdReuse ==
    \A i \in 1..Len(issued) : \A j \in 1..Len(issued) :
        issued[i].id = issued[j].id => i = j

(* ------------------------------------------------------------------ *)
(* C5  The ids issued by successive adds are strictly increasing,      *)
(*     whatever updates and deletes happen in between.                 *)
(* ------------------------------------------------------------------ *)
C5_AddIdsIncrease ==
    \A i \in 1..Len(AddedIds) : \A j \in 1..Len(AddedIds) :
        i < j => AddedIds[i].id < AddedIds[j].id

\* two adds with an entry deleted in between: the second add leaves the
\* catalogue with a single entry
C5_Witness ==
    /\ last.op = "add"
    /\ Len(AddedIds) = 2
    /\ Size = 1

(* ------------------------------------------------------------------ *)
(* The store file read as the format defines it: newline-terminated    *)
(* lines, in pairs "Name: <name>" / "Receipt: <body>"                  *)
(* ------------------------------------------------------------------ *)
NewlinesOf(f) == {i \in 1..Len(f) : f[i] = NL}

\* position of the k-th newline of f
NthNewline(f, k) ==
    CHOOSE p \in NewlinesOf(f) : Cardinality({q \in NewlinesOf(f) : q <= p}) = k

LinesOf(f) ==
    [k \in 1..Cardinality(NewlinesOf(f)) |->
        SubSeq(f, IF k = 1 THEN 1 ELSE NthNewline(f, k - 1) + 1, NthNewline(f, k) - 1)]

HasPrefix(line, pre) == Len(line) >= Len(pre) /\ SubSeq(line, 1, Len(pre)) = pre

\* the (name, body) records of a file made of complete pairs
RecordsOf(f) ==
    [k \in 1..(Len(LinesOf(f)) \div 2) |->
        [name |-> SubSeq(LinesOf(f)[2 * k - 1], Len(PrefixName) + 1,
                         Len(LinesOf(f)[2 * k - 1])),
         receipt |-> SubSeq(LinesOf(f)[2 * k], Len(PrefixReceipt) + 1,
                            Len(LinesOf(f)[2 * k]))]]

FreeOfMarkers(str) ==
    ~Contains(str, MarkName) /\ ~Contains(str, MarkReceipt) /\ CR \notin {str[i] : i \in 1..Len(str)}

\* complete Name/Receipt pairs, fields within their limits and free of markers
WellFormed(f) ==
    /\ f # NoFile
    /\ f = <<>> \/ f[Len(f)] = NL
    /\ Len(LinesOf(f)) % 2 = 0
    /\ \A k \in 1..(Len(LinesOf(f)) \div 2) :
          /\ HasPrefix(LinesOf(f)[2 * k - 1], PrefixName)
          /\ HasPrefix(LinesOf(f)[2 * k], PrefixReceipt)
          /\ Len(RecordsOf(f)[k].name) <= LEN_NAME - 1
          /\ Len(RecordsOf(f)[k].receipt) <= LEN_REC - 1
          /\ FreeOfMarkers(RecordsOf(f)[k].name)
          /\ FreeOfMarkers(RecordsOf(f)[k].receipt)

\* the (name, body) of the list entries, in list order
CatalogRecords == [i \in 1..Size |-> [name |-> Entry(i).name, receipt |-> Entry(i).receipt]]

Count(seq, x) == Cardinality({i \in 1..Len(seq) : seq[i] = x})

SameMultiset(s1, s2) ==
    /\ Len(s1) = Len(s2)
    /\ \A i \in 1..Len(s1) : Count(s1, s1[i]) = Count(s2, s1[i])

(* ------------------------------------------------------------------ *)
(* C6  As claimed: after every completed add, update or delete (store  *)
(*     well-formed or absent at start, every write succeeding) the     *)
(*     records of the file and the entries of the list are the same    *)
(*     multiset of (name, body).                                       *)
(* ------------------------------------------------------------------ *)
C6_FileMatchesMemory ==
    (pc = "menu" /\ last.op \in {"add", "update", "delete"} /\ file # NoFile)
        => SameMultiset(RecordsOf(file), CatalogRecords)

(* ------------------------------------------------------------------ *)
(* C7  As claimed: loading a well-formed file and rewriting the loaded *)
(*     list (an update that changes nothing does exactly that) leaves  *)
(*     the file byte-identical, whatever the order of its records.     *)
(* ------------------------------------------------------------------ *)
RewritesLoadedList ==
    /\ pc = "menu" /\ pristine /\ WellFormed(file)
    /\ last'.op = "update" /\ last'.wrote = "rewrite"
    /\ heap' = heap /\ head' = head

StrictlyAscending(recs) ==
    \A k \in 1..(Len(recs) - 1) :
        CaseInsensitiveCompare(recs[k].name, recs[k + 1].name) < 0

\* every "Receipt: " line, newline excluded, fits one read of LEN_REC - 1 bytes
LinesFitBuffer(recs) ==
    \A k \in 1..Len(recs) : Len(PrefixReceipt) + Len(recs[k].receipt) <= LEN_REC - 1

C8_LoadIdsFollowFileOrder ==
    (last.op = "load" /\ WellFormed(file)) =>
        /\ Size = Len(RecordsOf(file))
        /\ \A k \in 1..Len(RecordsOf(file)) :
              /\ Cardinality({i \in 1..Size : Entry(i).id = k - 1}) = 1
              /\ Entry(PosOfId(k - 1)).name = RecordsOf(file)[k].name
        /\ \A i \in 1..(Size - 1) :
              CaseInsensitiveCompare(Entry(i).name, Entry(i + 1).name) <= 0

\* file order [b, a] is listed as [(1, a), (0, b)]
C8_Witness ==
    /\ last.op = "load"
    /\ Len(RecordsOf(file)) = 2
    /\ Listing(heap, head) = <<<<1, <<97>>>>, <<0, <<98>>>>>>

(* ------------------------------------------------------------------ *)
(* C9  With no store file, load gives an empty list and the menu is    *)
(*     reached; the first add then creates the file with that one      *)
(*     record, the entry has id 0 and is the whole listing.            *)
(* ------------------------------------------------------------------ *)
C9_StartWithoutStore ==
    [][/\ (pc = "start" /\ file = NoFile)
            => (pc' = "menu" /\ head' = NULL /\ alloc' = {} /\ file' = NoFile)
       /\ (pc = "menu" /\ file = NoFile /\ last'.op = "add")
            => /\ file' # NoFile
               /\ Len(RecordsOf(file')) = 1
               /\ Len(Listing(heap', head')) = 1
               /\ Listing(heap', head')[1] = <<0, RecordsOf(file')[1].name>>
               /\ heap'[head'].receipt = RecordsOf(file')[1].receipt]_vars

\* the first receipt has been added after a start without a store
C9_Witness ==
    /\ ~had_store
    /\ last.op = "add" /\ Len(issued) = 1
    /\ Listing(heap, head) = <<<<0, <<98>>>>>>
    /\ file = RecordBytes(<<98>>, <<121>>)

(* ------------------------------------------------------------------ *)
(* C10 An add whose name is empty once the line terminators are        *)
(*     trimmed inserts nothing, takes no id and does not touch the     *)
(*     file.                                                           *)
(* ------------------------------------------------------------------ *)
C10_EmptyNameAddIsNoOp ==
    [][\A n \in TypedNames : \A r \in TypedBodies :
          (TrimNewline(n) = <<>> /\ MenuAdd(n, r, TRUE))
              => UNCHANGED <<file, heap, alloc, head, next_id, issued>>]_vars

\* an empty name was typed at a catalog that holds entries
C10_Witness ==
    /\ last.op = "add_skip"
    /\ Size = 2
    /\ next_id = 0

(* ------------------------------------------------------------------ *)
(* The entries of a list as (id, name, receipt), in list order         *)
(* ------------------------------------------------------------------ *)
EntriesOf(h, hd) ==
    [j \in 1..Len(List(h, hd)) |->
        [id |-> h[List(h, hd)[j]].id, name |-> h[List(h, hd)[j]].name,
         receipt |-> h[List(h, hd)[j]].receipt]]

HasId(es, id) == \E j \in 1..Len(es) : es[j].id = id

\* position of the first entry bearing the id
PosIn(es, id) ==
    CHOOSE j \in 1..Len(es) : es[j].id = id /\ \A m \in 1..(j - 1) : es[m].id # id

RemoveAt(seq, k) == [j \in 1..(Len(seq) - 1) |-> IF j < k THEN seq[j] ELSE seq[j + 1]]

RecordsIn(es) == [j \in 1..Len(es) |-> [name |-> es[j].name, receipt |-> es[j].receipt]]

\* the first k characters of str (all of it when it is shorter)
FirstChars(str, k) == [j \in 1..Min(Len(str), k) |-> str[j]]

Absent(str) == str = NullStr \/ str = <<>>

C12_FailedAllocChangesNothing ==
    [][\A args \in CreateArgs :
          (Addr \ alloc = {} /\ CreateReceiptCall(args[1], args[2], TRUE))
              => UNCHANGED <<file, heap, alloc, head, next_id, issued>>]_vars

\* an add was refused for want of memory, with ids already drawn
C12_Witness ==
    /\ last.op = "add_nomem"
    /\ Size = MaxNodes
    /\ next_id > 0

(* ------------------------------------------------------------------ *)
(* C13 view_receipt changes neither the list, the id counter nor the   *)
(*     file; it prints the id, name and text of the entry bearing the  *)
(*     id when there is one, and no receipt when there is none or the  *)
(*     list is empty.                                                  *)
(* ------------------------------------------------------------------ *)
C13_ViewReadsOnly ==
    [][\A i \in AskedIds :
          ViewReceipt(i) =>
              /\ UNCHANGED <<file, heap, alloc, head, next_id, issued>>
              /\ IF \E k \in 1..Size : Entry(k).id = i
                 THEN /\ last'.found
                      /\ shown' = <<[id |-> i, name |-> Entry(PosOfId(i)).name,
                                     receipt |-> Entry(PosOfId(i)).receipt]>>
                 ELSE /\ ~last'.found
                      /\ shown' = NotShown]_vars

\* the last of three entries has been viewed
C13_Witness ==
    /\ last.op = "view" /\ last.found
    /\ Size = 3
    /\ shown = <<[id |-> Entry(3).id, name |-> Entry(3).name, receipt |-> Entry(3).receipt]>>

(* ------------------------------------------------------------------ *)
(* C14 As claimed: update_receipt with an id no entry bears changes    *)
(*     neither the list nor a byte of the file.                        *)
(* ------------------------------------------------------------------ *)
C14_UpdateMissingIsNoOp ==
    [][\A i \in AskedIds : \A n \in UpdateNames : \A r \in UpdateBodies :
          (UpdateReceipt(i, n, r, TRUE) /\ ~HasId(EntriesOf(heap, head), i))
              => UNCHANGED <<file, heap, head>>]_vars

(* ------------------------------------------------------------------ *)
(* C15 update_receipt called with name and receipt both NULL changes   *)
(*     neither the list, the id counter nor the file, however often    *)
(*     it is called.                                                   *)
(* ------------------------------------------------------------------ *)
C15_UpdateWithNothingReturns ==
    [][\A i \in AskedIds :
          UpdateReceipt(i, NullStr, NullStr, TRUE)
              => UNCHANGED <<file, heap, alloc, head, next_id, issued>>]_vars

\* the call came when the file was in append order, not in list order
C15_Witness ==
    /\ last.op = "update_null"
    /\ Size >= 2
    /\ file # NoFile
    /\ file # FileOf(CatalogRecords)

(* ------------------------------------------------------------------ *)
(* The place insert_alphabetically gives a name among the entries es:  *)
(* first when es is empty or the name compares below the first entry,  *)
(* otherwise right after the first entry from the head on whose        *)
(* successor is missing or does not compare below the name.            *)
(* ------------------------------------------------------------------ *)
InsertPos(es, name) ==
    IF Len(es) = 0 THEN 1
    ELSE IF CaseInsensitiveCompare(name, es[1].name) < 0 THEN 1
    ELSE 1 + CHOOSE k \in 1..Len(es) :
                /\ k = Len(es) \/ CaseInsensitiveCompare(es[k + 1].name, name) >= 0
                /\ \A m \in 1..(k - 1) : CaseInsensitiveCompare(es[m + 1].name, name) < 0

C17_KeepCurrent ==
    [][LET es == EntriesOf(heap, head)
           es2 == EntriesOf(heap', head')
       IN \A i \in AskedIds : \A args \in UpdateArgs :
          LET n == args[1]
              r == args[2]
          IN (/\ last'.op \in {"update", "update_null"}
              /\ HasId(es, i)
              /\ UpdateReceipt(i, n, r, TRUE))
             => LET k == PosIn(es, i)
                IN /\ HasId(es2, i)
                   /\ (Absent(n) \/ n = es[k].name)
                      => /\ List(heap', head') = List(heap, head)
                         /\ Len(es2) = Len(es)
                         /\ \A j \in 1..Len(es) :
                               /\ es2[j].id = es[j].id
                               /\ es2[j].name = es[j].name
                               /\ j # k => es2[j].receipt = es[j].receipt
                   /\ Absent(r) => es2[PosIn(es2, i)].receipt = es[k].receipt
                   /\ ~Absent(r) => es2[PosIn(es2, i)].receipt = FirstChars(r, 999)]_vars

\* list (B, b): the head was given its own name and a new text, and is still
\* ahead of the entry that compares equal to it
C17_Witness ==
    /\ last.op = "update" /\ last.found
    /\ Size = 2
    /\ Entry(1).id = 0 /\ Entry(1).name = <<66>>
    /\ Entry(1).receipt = FirstChars(BodyOver, 999)
    /\ Entry(2).id = 1 /\ Entry(2).name = <<98>>

(* ------------------------------------------------------------------ *)
(* C18 After an update or a delete of an existing id whose write       *)
(*     succeeded, the file is exactly the entries of the list as       *)
(*     Name/Receipt line pairs in list order, and nothing else.        *)
(* ------------------------------------------------------------------ *)
C18_RewriteMirrorsCatalog ==
    (last.op \in {"update", "delete"} /\ last.found /\ last.wrote = "rewrite")
        => file = FileOf(CatalogRecords)

\* an entry has been deleted and two are left, in the list and in the file
C18_Witness ==
    /\ last.op = "delete" /\ last.found
    /\ Size = 2
    /\ Len(RecordsOf(file)) = 2
    /\ CaseInsensitiveCompare(Entry(1).name, Entry(2).name) < 0

(* ------------------------------------------------------------------ *)
(* C19 delete_receipt with an id no entry bears, or on an empty list,  *)
(*     finds nothing and leaves the list, the id counter and the file  *)
(*     as they are.                                                    *)
(* ------------------------------------------------------------------ *)
C19_DeleteMissingIsNoOp ==
    [][\A i \in AskedIds :
          (last'.op = "delete" /\ ~HasId(EntriesOf(heap, head), i) /\ DeleteReceipt(i, TRUE))
              => /\ ~last'.found
                 /\ UNCHANGED <<file, heap, alloc, head, next_id, issued>>]_vars

\* nothing was found in a list that holds entries, while the file is in append
\* order (a rewrite would have changed it)
C19_Witness ==
    /\ last.op = "delete" /\ ~last.found
    /\ Size >= 1
    /\ file # NoFile
    /\ file # FileOf(CatalogRecords)

FailAdds == {<<<<97>>, <<121>>>>, <<<<66>>, <<121>>>>}
FailUpdates == {<<<<>>, <<121>>>>, <<<<98>>, <<>>>>}

NextFail ==
    \/ LoadReceipts
    \/ \E a \in FailAdds, ok \in BOOLEAN : MenuAdd(a[1], a[2], ok)
    \/ \E i \in AskedIds, a \in FailUpdates, ok \in BOOLEAN : UpdateReceipt(i, a[1], a[2], ok)
    \/ \E i \in AskedIds, ok \in BOOLEAN : DeleteReceipt(i, ok)

\* started without a store or with a store of one record
InitFail == Init /\ file \in {NoFile, FileOf(<<[name |-> <<97>>, receipt |-> <<120>>]>>)}

SpecFail == InitFail /\ [][NextFail]_vars

\* the records of the store, an absent file holding none
StoreRecords == IF file = NoFile THEN <<>> ELSE RecordsOf(file)

(* ------------------------------------------------------------------ *)
(* C21 As claimed: a failed write keeps the change in memory and       *)
(*     leaves the file alone, and once a later write of either kind    *)
(*     (the append of an add, the rewrite of an update or delete) has  *)
(*     succeeded the records of the file are again the entries of the  *)
(*     list.                                                           *)
(* ------------------------------------------------------------------ *)
C21_NextWriteResyncs ==
    (pc = "menu" /\ last.wrote \in {"append", "rewrite"})
        => SameMultiset(StoreRecords, CatalogRecords)

(* ------------------------------------------------------------------ *)
(* What create_receipt, update_receipt and delete_receipt hand back to *)
(* run_menu: the head of the list (their only result; nothing else is  *)
(* set for the caller).  ok tells whether the write of the call        *)
(* succeeds; the call is one that writes when its outcome says so.     *)
(* ------------------------------------------------------------------ *)
AddReturns(a, ok, v) ==
    /\ MenuAdd(a[1], a[2], ok)
    /\ last'.wrote = (IF ok THEN "append" ELSE "failed")
    /\ head' = v

UpdateReturns(i, a, ok, v) ==
    /\ UpdateReceipt(i, a[1], a[2], ok)
    /\ last'.wrote = (IF ok THEN "rewrite" ELSE "failed")
    /\ head' = v

DeleteReturns(i, ok, v) ==
    /\ DeleteReceipt(i, ok)
    /\ last'.wrote = (IF ok THEN "rewrite" ELSE "failed")
    /\ head' = v

\* the values a Receipt * can take
Pointers == Addr \cup {NULL}

(* ------------------------------------------------------------------ *)
(* C22 As claimed: the caller of add, update or delete can tell a      *)
(*     failed write from a successful one: from no state does the same *)
(*     call hand back the same result both when its write fails and    *)
(*     when it succeeds.                                               *)
(* ------------------------------------------------------------------ *)
C22_CallerCanTell ==
    \A v \in Pointers :
        /\ \A a \in FailAdds :
              ~(ENABLED AddReturns(a, TRUE, v) /\ ENABLED AddReturns(a, FALSE, v))
        /\ \A i \in AskedIds, a \in FailUpdates :
              ~(ENABLED UpdateReturns(i, a, TRUE, v) /\ ENABLED UpdateReturns(i, a, FALSE, v))
        /\ \A i \in AskedIds :
              ~(ENABLED DeleteReturns(i, TRUE, v) /\ ENABLED DeleteReturns(i, FALSE, v))

(* ------------------------------------------------------------------ *)
(* A long run: 65535 ids have been issued by get_new_id, so next_id is *)
(* 65535, and all but a few of the entries have been deleted again     *)
(* ------------------------------------------------------------------ *)
\* the adds made from such a state
MaxWrapAdds == 2

\* the list create_receipt builds from the entries es, on a fresh heap
RECURSIVE Built(_, _)
Built(es, st) ==
    IF es = <<>> THEN st
    ELSE LET a == Malloc(st.alloc)
             h1 == [st.heap EXCEPT ![a] = [ZeroNode EXCEPT !.name = Head(es).name,
                                                             !.receipt = Head(es).receipt,
                                                             !.id = Head(es).id]]
             ins == InsertAlphabetically(h1, st.head, a)
         IN Built(Tail(es), [heap |-> ins.heap, head |-> ins.head,
                             alloc |-> st.alloc \cup {a}])

\* the entries still live: none, the first one, the last one, or an early and
\* a late one
WrapLive ==
    {<<>>,
     <<[id |-> 0, name |-> <<97>>, receipt |-> <<120>>]>>,
     <<[id |-> 0, name |-> <<98>>, receipt |-> <<120>>]>>,
     <<[id |-> UINT16_MOD - 2, name |-> <<97>>, receipt |-> <<120>>]>>,
     <<[id |-> 1, name |-> <<98>>, receipt |-> <<120>>]>>}

InitWrap ==
    \E es \in WrapLive :
        LET b == Built(es, [heap |-> [a \in Addr |-> ZeroNode], head |-> NULL, alloc |-> {}])
        IN /\ pc = "menu"
           /\ heap = b.heap
           /\ head = b.head
           /\ alloc = b.alloc
           /\ file = WriteAll(b.heap, b.head, MaxNodes + 1)
           /\ next_id = UINT16_MOD - 1
           /\ last = Outcome("none", FALSE, "none")
           /\ issued = <<>>
           /\ had_store = TRUE
           /\ pristine = FALSE
           /\ shown = NotShown
           /\ handles = 0
           /\ tty = MenuEntryTty(EnableRawMode(TtyAtStart))
           /\ selected_option = 0

\* head = create_receipt(head, name, receipt), at most MaxWrapAdds times
CreateReceiptWrap(name, receipt, ok) ==
    /\ pc = "menu"
    /\ Len(issued) < MaxWrapAdds
    /\ CreateReceipt(name, receipt, ok)
    /\ pristine' = (pristine /\ file' = file /\ heap' = heap /\ head' = head)
    /\ shown' = NotShown
    /\ tty' = MenuEntryTty(tty)
    /\ UNCHANGED <<pc, had_store, selected_option>>

WrapNames == {<<97>>, <<99>>}
WrapIds == {0, 1, UINT16_MOD - 2, UINT16_MOD - 1}

NextWrap ==
    \/ \E n \in WrapNames, r \in TypedBodies : CreateReceiptWrap(n, r, TRUE)
    \/ \E i \in WrapIds : DeleteReceipt(i, TRUE)

SpecWrap == InitWrap /\ [][NextWrap]_vars

(* ------------------------------------------------------------------ *)
(* C23 As claimed: the ids of the entries of the list stay pairwise    *)
(*     different when the 16-bit counter wraps: an add never issues an *)
(*     id that an entry of the list holds.                             *)
(* ------------------------------------------------------------------ *)
C23_DistinctAcrossWrap ==
    \A i \in 1..Size, j \in 1..Size : i # j => Entry(i).id # Entry(j).id

(* ------------------------------------------------------------------ *)
(* The largest member of a non-empty set of numbers                    *)
(* ------------------------------------------------------------------ *)
Max(S) == CHOOSE x \in S : \A y \in S : y <= x

\* the ids of the entries of the list other than the one at position k
IdsBut(k) == {Entry(j).id : j \in (1..Size) \ {k}}

(* ------------------------------------------------------------------ *)
(* C24 The first add of a run gets the largest id of the list plus one *)
(*     when the list holds entries at that moment, and 0 when it is    *)
(*     empty.                                                          *)
(* ------------------------------------------------------------------ *)
C24_FirstAddId ==
    (pc = "menu" /\ last.op = "add" /\ Len(AddedIds) = 1)
        => LET id == AddedIds[1].id
               k == PosOfId(id)
           IN /\ k # 0
              /\ IF IdsBut(k) = {} THEN id = 0 ELSE id = Max(IdsBut(k)) + 1

\* two records loaded, the first one deleted, then the first add: it gets 2
C24_Witness ==
    /\ pc = "menu" /\ last.op = "add" /\ Len(AddedIds) = 1
    /\ had_store /\ Size = 2
    /\ AddedIds[1].id = 2
    /\ \E j \in 1..Size : Entry(j).id = 1

(* ------------------------------------------------------------------ *)
(* C25 Once an id has been issued by an add the counter is not 0 any   *)
(*     more (also when that first id was 0, from an empty list), so    *)
(*     the scan of the list does not run again: the counter stands one *)
(*     above the id issued last and every later add issues the id of   *)
(*     the add before it plus one, whatever the list holds by then.    *)
(* ------------------------------------------------------------------ *)
C25_ScanRunsOnce ==
    Len(AddedIds) >= 1
        => /\ next_id # 0
           /\ next_id = AddedIds[Len(AddedIds)].id + 1
           /\ \A k \in 1..(Len(AddedIds) - 1) : AddedIds[k + 1].id = AddedIds[k].id + 1

\* no store: the first add issues 0, the entry is deleted, and the second add
\* finds an empty list and issues 1
C25_Witness ==
    /\ pc = "menu" /\ ~had_store
    /\ issued = <<[by |-> "add", id |-> 0], [by |-> "add", id |-> 1]>>
    /\ last.op = "add"
    /\ Size = 1 /\ Entry(1).id = 1

(* ------------------------------------------------------------------ *)
(* C26 As claimed: every operation writes exactly what its kind asks   *)
(*     for.  An add appends: the file as it was, then one Name/Receipt *)
(*     pair.  An update or delete of an id of the list rewrites the    *)
(*     file from the list.  A view, and an update or delete of an id   *)
(*     the list does not hold, write nothing.                          *)
(* ------------------------------------------------------------------ *)
C26_OneWriteOfTheRightKind ==
    [][/\ last'.op = "add"
          => /\ last'.wrote = "append"
             /\ \E a \in alloc' \ alloc :
                   file' = (IF file = NoFile THEN <<>> ELSE file)
                           \o RecordBytes(heap'[a].name, heap'[a].receipt)
       /\ (last'.op \in {"update", "delete"} /\ last'.found)
          => /\ last'.wrote = "rewrite"
             /\ file' = WriteAll(heap', head', MaxNodes + 1)
       /\ (last'.op = "view" \/ (last'.op \in {"update", "delete"} /\ ~last'.found))
          => /\ last'.wrote = "none"
             /\ file' = file]_vars

(* ------------------------------------------------------------------ *)
(* Stores that are not well formed: any sequence of up to MaxLines     *)
(* lines, each a Name line, a Receipt line or an unmarked line, the    *)
(* last one with or without its newline                                *)
(* ------------------------------------------------------------------ *)
MaxLines == 4

ParseLines ==
    {PrefixName \o <<97>>, PrefixName \o <<66>>, PrefixReceipt \o <<120>>, <<113>>}

\* the bytes of a file made of the given lines
RECURSIVE Joined(_)
Joined(ls) == IF ls = <<>> THEN <<>> ELSE Head(ls) \o <<NL>> \o Joined(Tail(ls))

ParseFiles ==
    LET full == {Joined(ls) : ls \in UNION {[1..n -> ParseLines] : n \in 0..MaxLines}}
    IN {NoFile} \cup full \cup {SubSeq(f, 1, Len(f) - 1) : f \in full \ {<<>>}}

InitParse ==
    /\ pc = "start"
    /\ file \in ParseFiles
    /\ heap = [a \in Addr |-> ZeroNode]
    /\ alloc = {}
    /\ head = NULL
    /\ next_id = 0
    /\ last = Outcome("none", FALSE, "none")
    /\ issued = <<>>
    /\ had_store = FALSE
    /\ pristine = TRUE
    /\ shown = NotShown
    /\ handles = 0
    /\ tty = TtyAtStart
    /\ selected_option = 0

\* the start of a run, and one menu entry after it
NextParse ==
    \/ LoadReceipts
    \/ \E ok \in BOOLEAN : last.op = "load" /\ MenuAdd(<<97>>, <<121>>, ok)
    \/ \E ok \in BOOLEAN : last.op = "load" /\ UpdateReceipt(0, <<>>, <<121>>, ok)
    \/ \E ok \in BOOLEAN : last.op = "load" /\ DeleteReceipt(0, ok)

SpecParse == InitParse /\ [][NextParse]_vars

\* the lines fgets delivers: the last one may lack its newline
StoreLines(f) == IF f = <<>> \/ f[Len(f)] = NL THEN LinesOf(f) ELSE LinesOf(f \o <<NL>>)

\* the number of Name lines that are followed by a Receipt line before the
\* next Name line; pending: a Name line has been read and not yet completed
RECURSIVE CompletedPairs(_, _)
CompletedPairs(ls, pending) ==
    IF ls = <<>> THEN 0
    ELSE IF Contains(Head(ls), MarkName) THEN CompletedPairs(Tail(ls), TRUE)
    ELSE IF pending /\ Contains(Head(ls), MarkReceipt)
         THEN 1 + CompletedPairs(Tail(ls), FALSE)
    ELSE CompletedPairs(Tail(ls), pending)

(* ------------------------------------------------------------------ *)
(* C27 As claimed: after load the list holds one entry per completed   *)
(*     Name/Receipt pair of the file, numbered 0, 1, ... without gaps  *)
(*     (a record that was started and not completed takes no id), and  *)
(*     the storage of every record that was not completed has been     *)
(*     released: only the entries of the list are allocated.           *)
(* ------------------------------------------------------------------ *)
C27_LoadKeepsCompletedPairsOnly ==
    (pc = "menu" /\ last.op = "load" /\ file # NoFile)
        => /\ Size = CompletedPairs(StoreLines(file), FALSE)
           /\ {Entry(i).id : i \in 1..Size} = 0..(Size - 1)
           /\ issued = [i \in 1..Size |-> [by |-> "load", id |-> i - 1]]
           /\ alloc = {Nodes[i] : i \in 1..Size}

\* the same without the clause on storage
LoadCountsCompletedPairs ==
    (pc = "menu" /\ last.op = "load" /\ file # NoFile)
        => /\ Size = CompletedPairs(StoreLines(file), FALSE)
           /\ {Entry(i).id : i \in 1..Size} = 0..(Size - 1)
           /\ issued = [i \in 1..Size |-> [by |-> "load", id |-> i - 1]]

(* ------------------------------------------------------------------ *)
(* The menu's "Update receipt" entry, and a keyboard that also types   *)
(* bytes above 127 (names in UTF-8 or Latin-1) and lines longer than   *)
(* the name field                                                      *)
(* ------------------------------------------------------------------ *)
\* run_menu, MENU_UPDATE with a parsed id: the user types nameLine and
\* recLine, each ended by Enter
MenuUpdate(receipt_id, nameLine, recLine, ok) ==
    LET r1 == Fgets(nameLine \o <<NL>> \o recLine \o <<NL>>, LEN_NAME)
        r2 == Fgets(r1.rest, LEN_REC)
    IN UpdateReceipt(receipt_id, TrimNewline(r1.buf), TrimNewline(r2.buf), ok)

\* a line of LEN_NAME + 1 characters: 29 times d, then e, f
LongLine == [i \in 1..(LEN_NAME + 1) |-> IF i < LEN_NAME THEN 100 ELSE 72 + i]

\* name lines: a, A, a with acute (Latin-1), y with diaeresis (Latin-1), a
\* followed by a byte above 127, and the long line
KeyNames == {<<97>>, <<65>>, <<225>>, <<255>>, <<97, 200>>, LongLine}
KeyBodies == {<<121>>}
KeyUpdates == {<<<<>>, <<121>>>>, <<<<255>>, <<>>>>, <<LongLine, <<121>>>>, <<LongLine, <<>>>>}

NextTyped ==
    \/ LoadReceipts
    \/ \E n \in KeyNames, r \in KeyBodies : MenuAdd(n, r, TRUE)
    \/ \E i \in AskedIds, a \in KeyUpdates : MenuUpdate(i, a[1], a[2], TRUE)
    \/ \E i \in AskedIds : DeleteReceipt(i, TRUE)

SpecTyped == InitFail /\ [][NextTyped]_vars

(* ------------------------------------------------------------------ *)
(* The order of two names as the comparator is documented to give it   *)
(* ------------------------------------------------------------------ *)
\* the first position at which the folded bytes differ or a name has ended
RECURSIVE FirstMismatch(_, _, _)
FirstMismatch(s1, s2, i) ==
    IF i > Len(s1) \/ i > Len(s2) \/ ToLower(s1[i]) # ToLower(s2[i]) THEN i
    ELSE FirstMismatch(s1, s2, i + 1)

\* the difference of the folded bytes there, the terminator counting as 0
FoldedDifference(s1, s2) ==
    LET i == FirstMismatch(s1, s2, 1)
    IN ToLower(CharAt(s1, i)) - ToLower(CharAt(s2, i))

Sign(x) == IF x > 0 THEN 1 ELSE IF x < 0 THEN -1 ELSE 0

EqualUpToCase(s1, s2) ==
    Len(s1) = Len(s2) /\ \A i \in 1..Len(s1) : ToLower(s1[i]) = ToLower(s2[i])

(* ------------------------------------------------------------------ *)
(* C28 As claimed, for the names of any entries of the list: the       *)
(*     comparator's int8_t result has the sign of the difference of    *)
(*     the first mismatching folded bytes (terminator against byte     *)
(*     when one name is a prefix of the other), it is 0 only for names *)
(*     equal up to ASCII case, and it is antisymmetric and transitive. *)
(* ------------------------------------------------------------------ *)
C28_ComparatorKeepsSign ==
    \A i \in 1..Size, j \in 1..Size :
        LET c == CaseInsensitiveCompare(Entry(i).name, Entry(j).name)
        IN /\ Sign(c) = Sign(FoldedDifference(Entry(i).name, Entry(j).name))
           /\ (c = 0) <=> EqualUpToCase(Entry(i).name, Entry(j).name)
           /\ Sign(CaseInsensitiveCompare(Entry(j).name, Entry(i).name)) = 0 - Sign(c)
           /\ \A k \in 1..Size :
                 (c <= 0 /\ CaseInsensitiveCompare(Entry(j).name, Entry(k).name) <= 0)
                     => CaseInsensitiveCompare(Entry(i).name, Entry(k).name) <= 0

(* ------------------------------------------------------------------ *)
(* C30 As claimed: in the menu's add and update flows each field takes *)
(*     one typed line.  The name is the first 29 characters of the     *)
(*     name line and the text is (the first 999 characters of) the     *)
(*     line typed next, also when the name line is longer than the     *)
(*     field; in an update a line left empty keeps the current value.  *)
(* ------------------------------------------------------------------ *)
C30_OneLinePerField ==
    [][/\ \A n \in KeyNames, r \in KeyBodies :
             (MenuAdd(n, r, TRUE) /\ last'.op = "add")
                 => \E a \in alloc' \ alloc :
                       /\ heap'[a].name = FirstChars(n, LEN_NAME - 1)
                       /\ heap'[a].receipt = FirstChars(r, LEN_REC - 1)
       /\ \A i \in AskedIds, u \in KeyUpdates :
             (MenuUpdate(i, u[1], u[2], TRUE) /\ last'.found)
                 => LET old == EntriesOf(heap, head)[PosIn(EntriesOf(heap, head), i)]
                        new == EntriesOf(heap', head')[PosIn(EntriesOf(heap', head'), i)]
                    IN /\ new.name = IF u[1] = <<>> THEN old.name
                                     ELSE FirstChars(u[1], LEN_NAME - 1)
                       /\ new.receipt = IF u[2] = <<>> THEN old.receipt
                                        ELSE FirstChars(u[2], LEN_REC - 1)]_vars

C31_ListWellFormed ==
    /\ head # NULL => heap[head].prev = NULL
    /\ Size <= MaxNodes
    /\ Cardinality({Nodes[i] : i \in 1..Size}) = Size
    /\ Size > 0 => heap[Nodes[Size]].next = NULL
    /\ \A i \in 1..(Size - 1) : heap[Nodes[i + 1]].prev = Nodes[i]
    /\ \A a \in Addr \ {Nodes[i] : i \in 1..Size} :
          heap[a].next = NULL /\ heap[a].prev = NULL

\* two records loaded and a third added (id 2), then the one in the middle
\* (id 1) deleted
C31_Witness ==
    /\ pc = "menu" /\ had_store
    /\ last.op = "delete" /\ last.found
    /\ Size = 2
    /\ Entry(1).id = 0 /\ Entry(2).id = 2
    /\ heap[Nodes[2]].prev = Nodes[1]

(* ------------------------------------------------------------------ *)
(* The end of the run: run_menu returns and main calls free_list       *)
(* ------------------------------------------------------------------ *)
\* free_list(head): the nodes it frees, every node reached through next
FreeList(h, hd) == {List(h, hd)[i] : i \in 1..Len(List(h, hd))}

\* run_menu leaves its loop (q, Q, or Enter on "Exit"), restores the terminal
\* and returns; main: free_list(head); return 0.  head goes out of scope
Exit ==
    /\ pc = "menu"
    /\ pc' = "done"
    /\ alloc' = alloc \ FreeList(heap, head)
    /\ heap' = [a \in Addr |-> IF a \in FreeList(heap, head) THEN ZeroNode ELSE heap[a]]
    /\ head' = NULL
    /\ last' = Outcome("exit", FALSE, "none")
    /\ shown' = NotShown
    /\ tty' = DisableRawMode(tty)
    /\ UNCHANGED <<file, next_id, issued, had_store, pristine, handles, selected_option>>

\* a whole run from a store that may be ill formed: load, one menu entry, exit
NextRun ==
    \/ NextParse
    \/ Exit

SpecRun == InitParse /\ [][NextRun]_vars

\* a whole run from a well-formed store
NextExit ==
    \/ Next
    \/ Exit

SpecExit == Init /\ [][NextExit]_vars

(* ------------------------------------------------------------------ *)
(* C32 As claimed: between operations every Receipt that has been      *)
(*     allocated and not freed is a node of the list (so none is       *)
(*     freed while linked, and none is lost), and once main has run    *)
(*     free_list nothing is left allocated.                            *)
(* ------------------------------------------------------------------ *)
C32_EntriesOwned ==
    /\ pc = "menu" => alloc = {Nodes[i] : i \in 1..Size}
    /\ pc = "done" => alloc = {}

(* ------------------------------------------------------------------ *)
(* What a new process would list: load_receipts run on the present     *)
(* file with nothing allocated                                         *)
(* ------------------------------------------------------------------ *)
Reloaded ==
    IF file = NoFile THEN <<>>
    ELSE LET st == LoadResult(file, [a \in Addr |-> ZeroNode], {})
         IN RecordsIn(EntriesOf(st.heap, st.head))

(* ------------------------------------------------------------------ *)
(* C33 As claimed: whenever the menu waits, after any sequence of      *)
(*     adds, updates and deletes whose writes succeeded, a process     *)
(*     started on the present file would list the same (name, text)    *)
(*     entries in the same order as the present list, also when        *)
(*     several names compare equal.                                    *)
(* ------------------------------------------------------------------ *)
C33_RestartKeepsListing ==
    pc = "menu" => Reloaded = CatalogRecords

\* the same for lists in which no two names compare equal
RestartKeepsDistinctNames ==
    (/\ pc = "menu"
     /\ \A i \in 1..Size, j \in 1..Size :
           i # j => CaseInsensitiveCompare(Entry(i).name, Entry(j).name) # 0)
        => Reloaded = CatalogRecords

(* ------------------------------------------------------------------ *)
(* run_menu key by key: the arrow keys move the highlighted line,      *)
(* Enter runs the highlighted entry, q or Q leaves                     *)
(* ------------------------------------------------------------------ *)
MENU_DISPLAY_ALL == 0
MENU_ADD == 1
MENU_VIEW == 2
MENU_UPDATE == 3
MENU_DELETE == 4
MENU_EXIT == 5

\* ESC [ A
KeyUp ==
    /\ pc = "menu"
    /\ selected_option' = IF selected_option > 0 THEN selected_option - 1
                          ELSE selected_option
    /\ UNCHANGED <<pc, file, heap, alloc, head, next_id, last, issued, had_store,
                   pristine, shown, handles, tty>>

\* ESC [ B
KeyDown ==
    /\ pc = "menu"
    /\ selected_option' = IF selected_option < 5 THEN selected_option + 1
                          ELSE selected_option
    /\ UNCHANGED <<pc, file, heap, alloc, head, next_id, last, issued, had_store,
                   pristine, shown, handles, tty>>

\* Enter on "Display all": display_receipts(head)
MenuDisplayAll ==
    /\ pc = "menu"
    /\ selected_option = MENU_DISPLAY_ALL
    /\ last' = Outcome("display", head # NULL, "none")
    /\ shown' = NotShown
    /\ tty' = MenuEntryTty(tty)
    /\ UNCHANGED <<pc, file, heap, alloc, head, next_id, issued, had_store, pristine,
                   handles, selected_option>>

\* Enter on View, Update or Delete, and the id line is not read or is no
\* number: "Press any key", enable_raw_mode, continue
MenuBadId ==
    /\ pc = "menu"
    /\ selected_option \in {MENU_VIEW, MENU_UPDATE, MENU_DELETE}
    /\ last' = Outcome("bad_id", FALSE, "none")
    /\ shown' = NotShown
    /\ tty' = MenuEntryTty(tty)
    /\ UNCHANGED <<pc, file, heap, alloc, head, next_id, issued, had_store, pristine,
                   handles, selected_option>>

\* q or Q, whatever line is highlighted
KeyQuit == Exit

\* Enter on "Exit"
EnterExit == selected_option = MENU_EXIT /\ Exit

NextMenu ==
    \/ LoadReceipts
    \/ KeyUp
    \/ KeyDown
    \/ MenuDisplayAll
    \/ \E a \in FailAdds : selected_option = MENU_ADD /\ MenuAdd(a[1], a[2], TRUE)
    \/ \E i \in AskedIds : selected_option = MENU_VIEW /\ ViewReceipt(i)
    \/ \E i \in AskedIds, a \in FailUpdates :
          selected_option = MENU_UPDATE /\ MenuUpdate(i, a[1], a[2], TRUE)
    \/ \E i \in AskedIds : selected_option = MENU_DELETE /\ DeleteReceipt(i, TRUE)
    \/ MenuBadId
    \/ KeyQuit
    \/ EnterExit

SpecMenu == InitFail /\ [][NextMenu]_vars

(* ------------------------------------------------------------------ *)
(* C34 While the loop waits for a key the terminal is in raw mode;     *)
(*     every menu entry asks for its input in the original (cooked)    *)
(*     mode; the highlighted line stays within 0..5; and when run_menu *)
(*     has returned, by q or Q or by Enter on Exit, the terminal is    *)
(*     back in the original mode.                                      *)
(* ------------------------------------------------------------------ *)
C34_TerminalProtocol ==
    /\ pc = "menu" => tty.mode = "raw"
    /\ tty.asked \in {"none", "cooked"}
    /\ selected_option \in 0..5
    /\ pc = "done" => tty.mode = "cooked"

\* an entry has run, the user has moved down to "Exit" and left
C34_Witness ==
    /\ pc = "done"
    /\ selected_option = MENU_EXIT
    /\ tty = [mode |-> "cooked", saved |-> "cooked", asked |-> "cooked"]
    /\ last.op = "exit"
    /\ Len(AddedIds) = 1

====
